---- MODULE Spec2Model ----
(***************************************************************************)
(* A model of xget_actions_prices.py: the event-series normalizer, the     *)
(* date-range filter, the price-column standardizer and the main loop that *)
(* fetches, normalizes, filters, prunes, reports and writes four kinds of  *)
(* records per symbol.                                                     *)
(*                                                                         *)
(* Dates are calendar-day ordinals 1..MaxDate.  Provider event timestamps  *)
(* are exchange-local midnights, so an ordinal stands for the wall-clock   *)
(* day both before and after tz_localize(None).  A column label is a       *)
(* sequence of tokens, "|" being the separator character, so that joining  *)
(* labels is concatenation and <<>> is the empty string.                   *)
(***************************************************************************)
EXTENDS Integers, Sequences, FiniteSets, TLC

VARIABLES
    cfg,        \* the user parameters of main(): toggles, window, write_csv
    i,          \* position of the for loop in symbols
    symbol,     \* the loop variable, upper-cased and stripped
    kind,       \* the block of the loop body being run, an index into Kinds
    pc,         \* where the run is: the stage of the block, or a loop position
    fetched,    \* what the provider returned to the block
    df_in,      \* the table handed to the operation applied last
    df,         \* the block's table
    out,        \* the lines the block has printed
    written,    \* the file the block has written
    exc,        \* the exception raised last in the block
    completed,  \* how often each (symbol position, kind) block has run to its end
    failed      \* whether a provider fetch has raised so far in the run

vars == <<cfg, i, symbol, kind, pc, fetched, df_in, df, out, written, exc, completed, failed>>

loopvars == <<i, symbol, kind, completed>>

\* ------------------------------------------------------------------ bounds
MaxDate == 3
MaxLen == 3
MaxCols == 2
MaxRows == 1
MainLen == 1
MainDate == 2

\* ------------------------------------------------------------- basic data
\* Python's None where a table or a series is expected
None == [absent |-> TRUE]
\* an optional date is <<>> (None) or <<d>>
Absent == <<>>

Dates == 1..MaxDate
Values == {0, 1}

Kinds == <<"dividends", "splits", "capital_gains", "prices">>
EventKinds == {"dividends", "splits", "capital_gains"}

\* symbols = [...] of main(); the blank entry exercises "if not symbol: continue"
symbols == <<"spy", " ", " qqq ">>

\* str(symbol).upper().strip()
upper_strip(s) ==
    CASE s = "spy" -> "SPY"
      [] s = " qqq " -> "QQQ"
      [] s = " " -> ""
      [] OTHER -> s

\* the column name main() passes to _series_to_df for each event kind
colname_of(k) ==
    CASE k = "dividends" -> "dividend"
      [] k = "splits" -> "split_ratio"
      [] k = "capital_gains" -> "capital_gains"

\* the name the provider gives the series it returns (Ticker.dividends, ...)
provider_name(k) ==
    CASE k = "dividends" -> "Dividends"
      [] k = "splits" -> "Stock Splits"
      [] k = "capital_gains" -> "Capital Gains"

\* ------------------------------------------------------- event series, tables
Entries == [date : Dates, value : Values]

SeqsUpTo(S, n) == UNION {[1..m -> S] : m \in 0..n}

\* a provider event series: a named, tz-aware, date-indexed sequence of scalars
EventSeries(k) ==
    [name : {provider_name(k)}, tz : {"America/New_York"}, data : SeqsUpTo(Entries, MaxLen)]

is_monotonic_increasing(rows) ==
    \A a \in 1..Len(rows) : \A b \in 1..Len(rows) :
        a < b => rows[a].date <= rows[b].date

Rearrangements(rows) ==
    {[a \in 1..Len(rows) |-> rows[p[a]]] : p \in Permutations(1..Len(rows))}

\* sort_index left out: the rows stay in the provider's order
sort_index_Unsorted(rows) == {rows}

\* DataFrame.sort_index(): a copy when the index is already monotonic, else an
\* argsort with the default (unstable) quicksort: any ascending arrangement
sort_index(rows) ==
    IF is_monotonic_increasing(rows)
    THEN {rows}
    ELSE {r \in Rearrangements(rows) : is_monotonic_increasing(r)}

\* pd.DataFrame(columns=[colname], index=pd.DatetimeIndex([], name="date"))
empty_event_frame(colname) ==
    [columns |-> <<colname>>, index_name |-> "date", tz |-> "naive", rows |-> <<>>]

\* the tables _series_to_df may return
_series_to_df(s, colname) ==
    IF s = None \/ Len(s.data) = 0
    THEN {empty_event_frame(colname)}
    ELSE {[columns |-> <<colname>>, index_name |-> "date", tz |-> "naive", rows |-> r] :
             r \in sort_index(s.data)}

\* position of the first row dated on or after key (Len+1 when there is none):
\* the left bound of df.loc[key:] on a monotonic index
slice_from(rows, key) ==
    IF \E a \in 1..Len(rows) : rows[a].date >= key
    THEN CHOOSE a \in 1..Len(rows) :
            /\ rows[a].date >= key
            /\ \A b \in 1..(a - 1) : rows[b].date < key
    ELSE Len(rows) + 1

\* an upper bound that leaves the end date itself out
slice_upto_Exclusive(rows, key) ==
    IF \E a \in 1..Len(rows) : rows[a].date >= key
    THEN (CHOOSE a \in 1..Len(rows) :
            /\ rows[a].date >= key
            /\ \A b \in 1..(a - 1) : rows[b].date < key) - 1
    ELSE Len(rows)

\* position of the last row before the first row dated after key:
\* the right bound of df.loc[:key] on a monotonic index
slice_upto(rows, key) ==
    IF \E a \in 1..Len(rows) : rows[a].date > key
    THEN (CHOOSE a \in 1..Len(rows) :
            /\ rows[a].date > key
            /\ \A b \in 1..(a - 1) : rows[b].date <= key) - 1
    ELSE Len(rows)

loc_from(t, start) ==
    [t EXCEPT !.rows = SubSeq(t.rows, slice_from(t.rows, start), Len(t.rows))]

loc_upto(t, end) ==
    [t EXCEPT !.rows = SubSeq(t.rows, 1, slice_upto(t.rows, end))]

_filter_date_range(t, start, end) ==
    LET t1 == IF start # Absent THEN loc_from(t, start[1]) ELSE t
    IN  IF end # Absent THEN loc_upto(t1, end[1]) ELSE t1

\* the zero filter left out
zero_prune_Keep(t) == t

\* df[df[col] != 0], applied by main() when the filtered table has rows
zero_prune(t) ==
    IF Len(t.rows) > 0
    THEN [t EXCEPT !.rows = SelectSeq(t.rows, LAMBDA r : r.value # 0)]
    ELSE t

\* ------------------------------------------------------------ price tables
Sep == "|"

L(x) == <<x>>
Blank == <<>>
Collide == <<"Open", Sep, "Open">>

\* the labels provider price tables are built from: the symbol "SPY", two
\* recognized fields, a label that holds the separator, the empty string
Labels == {L("SPY"), L("Open"), L("Close"), Collide, Blank}

preferred ==
    << L("Open"), L("High"), L("Low"), L("Close"), L("Adj Close"), L("Volume"),
       L("Dividends"), L("Stock Splits"), L("Capital Gains") >>

Range(f) == {f[a] : a \in DOMAIN f}

Distinct(f) == \A a \in DOMAIN f : \A b \in DOMAIN f : a # b => f[a] # f[b]

\* column sequences with pairwise distinct labels, each column remembering the
\* position it has in the provider's table
ColumnSeqs(labelset) ==
    {[a \in 1..Len(ls) |-> [label |-> ls[a], src |-> a]] :
        ls \in {x \in SeqsUpTo(labelset, MaxCols) : Distinct(x)}}

\* a provider price table: a plain Index of labels, or a MultiIndex of
\* nlevels-tuples of labels, over nrows rows
PriceTables ==
    [multi : {FALSE}, nlevels : {1}, columns : ColumnSeqs(Labels),
     nrows : 0..MaxRows, tz : {"America/New_York"}, index_name : {"Date"}]
    \cup
    [multi : {TRUE}, nlevels : {1}, columns : ColumnSeqs({<<l>> : l \in Labels}),
     nrows : 0..MaxRows, tz : {"America/New_York"}, index_name : {"Date"}]
    \cup
    [multi : {TRUE}, nlevels : {2}, columns : ColumnSeqs(Labels \X Labels),
     nrows : 0..MaxRows, tz : {"America/New_York"}, index_name : {"Date"}]

\* pd.DataFrame()
empty_frame ==
    [multi |-> FALSE, nlevels |-> 1, columns |-> <<>>, nrows |-> 0,
     tz |-> "naive", index_name |-> "None"]

RECURSIVE join(_)
\* "|".join(map(str, c)) for a tuple c of labels
join(c) ==
    IF Len(c) = 0 THEN <<>>
    ELSE IF Len(c) = 1 THEN c[1]
    ELSE c[1] \o <<Sep>> \o join(Tail(c))

\* the outer label taken for the joined name
joined_columns_OuterOnly(t) ==
    [t EXCEPT !.multi = FALSE, !.nlevels = 1,
              !.columns = [a \in 1..Len(t.columns) |->
                              [t.columns[a] EXCEPT !.label = t.columns[a].label[1]]]]

\* df_px.columns = ["|".join(map(str, c)) for c in df_px.columns.to_list()]
joined_columns(t) ==
    [t EXCEPT !.multi = FALSE, !.nlevels = 1,
              !.columns = [a \in 1..Len(t.columns) |->
                              [t.columns[a] EXCEPT !.label = join(t.columns[a].label)]]]

get_level_values(t, n) == [a \in 1..Len(t.columns) |-> t.columns[a].label[n]]

\* the columns whose label at level n is sym, that level dropped
cross_section(t, sym, n) ==
    LET hit == SelectSeq(t.columns, LAMBDA c : c.label[n] = L(sym))
    IN  [t EXCEPT !.multi = FALSE, !.nlevels = 1,
                  !.columns = [a \in 1..Len(hit) |->
                                  [hit[a] EXCEPT !.label = hit[a].label[3 - n]]]]

\* df_px[symbol] on two-level columns: pandas hands back a Series, not a
\* DataFrame, when the selection is one column whose remaining label is ""
getitem_is_frame(t, sym) ==
    LET sub == cross_section(t, sym, 1)
    IN  ~(Len(sub.columns) = 1 /\ sub.columns[1].label = Blank)

\* df_px.columns = lv: the labels of one level become the column labels
set_columns(t, lv) ==
    [t EXCEPT !.multi = FALSE, !.nlevels = 1,
              !.columns = [a \in 1..Len(t.columns) |->
                              [t.columns[a] EXCEPT !.label = lv[a]]]]

\* the inner level searched for the symbol before the outer level
_standardize_price_columns_InnerFirst(df_px, sym) ==
    IF df_px = None THEN df_px
    ELSE IF df_px.nrows = 0 THEN df_px
    ELSE IF ~df_px.multi THEN df_px
    ELSE IF df_px.nlevels < 2 THEN joined_columns(df_px)
    ELSE LET lv0 == get_level_values(df_px, 1)
             lv1 == get_level_values(df_px, 2)
             u0 == Range(lv0)
             u1 == Range(lv1)
         IN  IF L(sym) \in Range(lv1)
                 THEN cross_section(df_px, sym, 2)
             ELSE IF L(sym) \in Range(lv0) /\ getitem_is_frame(df_px, sym)
                 THEN cross_section(df_px, sym, 1)
             ELSE IF Cardinality(u0) = 1 /\ Cardinality(u1) > 1
                 THEN set_columns(df_px, lv1)
             ELSE IF Cardinality(u1) = 1 /\ Cardinality(u0) > 1
                 THEN set_columns(df_px, lv0)
             ELSE joined_columns(df_px)

_standardize_price_columns(df_px, sym) ==
    IF df_px = None THEN df_px
    ELSE IF df_px.nrows = 0 THEN df_px
    ELSE IF ~df_px.multi THEN df_px
    ELSE IF df_px.nlevels < 2 THEN joined_columns(df_px)
    ELSE LET lv0 == get_level_values(df_px, 1)
             lv1 == get_level_values(df_px, 2)
             u0 == Range(lv0)
             u1 == Range(lv1)
         IN  IF L(sym) \in Range(lv0) /\ getitem_is_frame(df_px, sym)
                 THEN cross_section(df_px, sym, 1)
             ELSE IF L(sym) \in Range(lv1)
                 THEN cross_section(df_px, sym, 2)
             ELSE IF Cardinality(u0) = 1 /\ Cardinality(u1) > 1
                 THEN set_columns(df_px, lv1)
             ELSE IF Cardinality(u1) = 1 /\ Cardinality(u0) > 1
                 THEN set_columns(df_px, lv0)
             ELSE joined_columns(df_px)

\* keep = [c for c in preferred if c in df_px.columns]
keep_of(t) ==
    SelectSeq(preferred, LAMBDA c : \E a \in 1..Len(t.columns) : t.columns[a].label = c)

\* other = [c for c in df_px.columns if c not in keep]
other_of(t) ==
    LET labels == [a \in 1..Len(t.columns) |-> t.columns[a].label]
    IN  SelectSeq(labels, LAMBDA c : c \notin Range(keep_of(t)))

RECURSIVE select_labels(_, _)
\* df_px[wanted]: for each wanted label in turn, every column carrying it
select_labels(cols, wanted) ==
    IF Len(wanted) = 0 THEN <<>>
    ELSE SelectSeq(cols, LAMBDA c : c.label = wanted[1])
         \o select_labels(cols, Tail(wanted))

\* the unrecognized columns put first
reorder_columns_OtherFirst(t) ==
    [t EXCEPT !.columns = select_labels(t.columns, other_of(t) \o keep_of(t))]

\* df_px = df_px[keep + other]
reorder_columns(t) ==
    [t EXCEPT !.columns = select_labels(t.columns, keep_of(t) \o other_of(t))]

\* df_px.copy(); index = to_datetime(index).tz_localize(None); index.name = "date"
naive_date_index(t) == [t EXCEPT !.tz = "naive", !.index_name = "date"]

\* ---------------------------------------------------------------- main()
\* what the provider may answer to a Ticker(symbol).<kind> request: nothing,
\* or a series of at most n entries
SeriesUpTo(k, n) == {None} \cup {s \in EventSeries(k) : Len(s.data) <= n}

Cols(ls) == [a \in 1..Len(ls) |-> [label |-> ls[a], src |-> a]]

\* answers of yf.download in a run over several symbols: nothing, a table
\* without rows, a flat table, the (field, ticker) and (ticker, field) layouts,
\* and a layout that names no ticker
MainPrices(sym) ==
    {None}
    \cup
    [multi : {FALSE}, nlevels : {1}, columns : {Cols(<<L("Close"), L("Open")>>)},
     nrows : {0, 1}, tz : {"America/New_York"}, index_name : {"Date"}]
    \cup
    [multi : {TRUE}, nlevels : {2},
     columns : {Cols(<< <<L("Close"), L(sym)>>, <<L("Open"), L(sym)>> >>),
                Cols(<< <<L(sym), L("Close")>>, <<L(sym), L("Open")>> >>),
                Cols(<< <<Collide, L("Open")>>, <<L("Open"), Collide>> >>)},
     nrows : {1}, tz : {"America/New_York"}, index_name : {"Date"}]

K == Kinds[kind]

enabled(k) ==
    CASE k = "dividends" -> cfg.get_dividends
      [] k = "splits" -> cfg.get_splits
      [] k = "capital_gains" -> cfg.get_capital_gains
      [] k = "prices" -> cfg.get_prices

\* no try statement around the block
in_try_Never(k, stage) == FALSE

\* the try statement closed right after the provider call
in_try_FetchOnly(k, stage) == stage = "Fetching"

\* the stages of a kind's block that lie inside its try statement
in_try(k, stage) ==
    IF k = "prices"
    THEN stage = "Fetching"
    ELSE stage \in {"Fetching", "Normalizing", "Filtering", "Pruned"}

\* the table the except clause of a kind's block substitutes
except_frame(k) ==
    IF k = "prices" THEN empty_frame ELSE empty_event_frame(colname_of(k))

len(t) ==
    IF t = None THEN 0
    ELSE IF "rows" \in DOMAIN t THEN Len(t.rows)
    ELSE t.nrows

NoExc == [stage |-> "none", caught |-> FALSE]
NoFile == [name |-> <<>>, table |-> None]
Line(what) == [what |-> what, kind |-> K, symbol |-> symbol]

Terminal == {"nothing_to_do", "done", "crashed", "interrupted"}

NoRun == [a \in 1..Len(symbols), b \in 1..Len(Kinds) |-> 0]

any_toggle == cfg.get_dividends \/ cfg.get_splits \/ cfg.get_capital_gains \/ cfg.get_prices

\* an exception raised in a stage: the kind's except clause when the stage is
\* inside the try (message, substitute table, on to the emptiness test), else
\* the exception leaves main() and the run ends with its frames
Raise(stage) ==
    /\ exc' = [stage |-> stage, caught |-> in_try(K, stage)]
    /\ failed' = (failed \/ stage = "Fetching")
    /\ IF in_try(K, stage)
       THEN /\ out' = Append(out, Line("error"))
            /\ df' = except_frame(K)
            /\ pc' = "Empty"
       ELSE /\ pc' = "crashed"
            /\ df' = None
            /\ UNCHANGED out
    /\ fetched' = None
    /\ df_in' = None
    /\ UNCHANGED <<cfg, loopvars, written>>

\* the toggle test and _safe_mkdir(out_dir)
Start ==
    /\ pc = "start"
    /\ \/ /\ ~any_toggle
          /\ pc' = "nothing_to_do"
          /\ UNCHANGED exc
       \/ /\ any_toggle
          /\ pc' = "loop"
          /\ UNCHANGED exc
       \/ /\ any_toggle
          /\ exc' = [stage |-> "mkdir", caught |-> FALSE]
          /\ pc' = "crashed"
    /\ UNCHANGED <<cfg, loopvars, fetched, df_in, df, out, written, failed>>

\* for symbol in symbols: upper/strip, skip a blank one, print the header;
\* after the loop the divider and "done"
NextSymbol ==
    /\ pc = "loop"
    /\ IF i > Len(symbols)
       THEN /\ pc' = "done"
            /\ UNCHANGED <<i, symbol, kind>>
       ELSE IF upper_strip(symbols[i]) = ""
       THEN /\ i' = i + 1
            /\ symbol' = ""
            /\ UNCHANGED <<pc, kind>>
       ELSE /\ symbol' = upper_strip(symbols[i])
            /\ kind' = 1
            /\ pc' = "kind"
            /\ UNCHANGED i
    /\ UNCHANGED <<cfg, completed, fetched, df_in, df, out, written, exc, failed>>

\* if get_<kind>: enter the kind's block, else go on to the next block; after
\* the last block the loop takes the next symbol
EnterKind ==
    /\ pc = "kind"
    /\ IF enabled(K)
       THEN /\ pc' = "Fetching"
            /\ UNCHANGED <<i, kind>>
       ELSE IF kind < Len(Kinds)
       THEN /\ kind' = kind + 1
            /\ UNCHANGED <<pc, i>>
       ELSE /\ i' = i + 1
            /\ kind' = 1
            /\ pc' = "loop"
    /\ UNCHANGED <<cfg, symbol, completed, fetched, df_in, df, out, written, exc, failed>>

\* tkr = yf.Ticker(symbol); s = tkr.<kind>, the provider answering from S
FetchEvents(S) ==
    /\ pc = "Fetching"
    /\ K \in EventKinds
    /\ \/ \E s \in S :
             /\ fetched' = s
             /\ pc' = "Normalizing"
             /\ UNCHANGED <<cfg, loopvars, df_in, df, out, written, exc, failed>>
       \/ Raise("Fetching")

\* df = _series_to_df(s, colname)
Normalize ==
    /\ pc = "Normalizing"
    /\ K \in EventKinds
    /\ \/ \E t \in _series_to_df(fetched, colname_of(K)) :
             /\ df' = t
             /\ pc' = "Filtering"
             /\ UNCHANGED <<cfg, loopvars, fetched, df_in, out, written, exc, failed>>
       \/ Raise("Normalizing")

\* df = _filter_date_range(df, start, end)
Filter ==
    /\ pc = "Filtering"
    /\ \/ /\ df' = _filter_date_range(df, cfg.start, cfg.end)
          /\ df_in' = df
          /\ pc' = "Pruned"
          /\ UNCHANGED <<cfg, loopvars, fetched, out, written, exc, failed>>
       \/ Raise("Filtering")

\* if len(df) > 0: df = df[df[col] != 0]; then the test len(df) == 0
Prune ==
    /\ pc = "Pruned"
    /\ \/ /\ df' = zero_prune(df)
          /\ df_in' = df
          /\ pc' = IF len(zero_prune(df)) = 0 THEN "Empty" ELSE "NonEmpty"
          /\ UNCHANGED <<cfg, loopvars, fetched, out, written, exc, failed>>
       \/ Raise("Pruned")

\* df_px = yf.download(symbol, start=start, end=end, ...), the provider
\* answering from T; then the test df_px is None or len(df_px) == 0
FetchPrices(T) ==
    /\ pc = "Fetching"
    /\ K = "prices"
    /\ \/ \E t \in T :
             /\ fetched' = t
             /\ df' = t
             /\ pc' = IF len(t) = 0 THEN "Empty" ELSE "NonEmpty"
             /\ UNCHANGED <<cfg, loopvars, df_in, out, written, exc, failed>>
       \/ Raise("Fetching")

\* a price table with rows reported as the provider shaped it
Branch_SkipNormalize ==
    /\ pc \in {"Empty", "NonEmpty"}
    /\ pc' = "Reported"
    /\ UNCHANGED <<cfg, loopvars, fetched, df_in, df, out, written, exc, failed>>

\* the branch taken on the emptiness test: an event block and an empty price
\* block go on to their report, a price table with rows is first normalized
Branch ==
    /\ pc \in {"Empty", "NonEmpty"}
    /\ pc' = IF pc = "NonEmpty" /\ K = "prices" THEN "Normalizing" ELSE "Reported"
    /\ UNCHANGED <<cfg, loopvars, fetched, df_in, df, out, written, exc, failed>>

\* df_px = df_px.copy(); naive "date" index; _standardize_price_columns
Standardize ==
    /\ pc = "Normalizing"
    /\ K = "prices"
    /\ \/ /\ df' = _standardize_price_columns(naive_date_index(df), symbol)
          /\ df_in' = df
          /\ pc' = "Standardized"
          /\ UNCHANGED <<cfg, loopvars, fetched, out, written, exc, failed>>
       \/ Raise("Normalizing")

\* keep, other, df_px = df_px[keep + other]
Reorder ==
    /\ pc = "Standardized"
    /\ \/ /\ df' = reorder_columns(df)
          /\ df_in' = df
          /\ pc' = "Reported"
          /\ UNCHANGED <<cfg, loopvars, fetched, out, written, exc, failed>>
       \/ Raise("Standardized")

\* the file written inside the "none" branch as well
Report_WriteEmpty ==
    /\ pc = "Reported"
    /\ \/ /\ out' = Append(out, Line(IF len(df) = 0 THEN "none" ELSE "summary"))
          /\ pc' = IF cfg.write_csv THEN "Persisting" ELSE "Skipped"
          /\ UNCHANGED <<cfg, loopvars, fetched, df_in, df, written, exc, failed>>
       \/ Raise("Reported")

\* print("<kind>: none"), or the summary lines of a table with rows
Report ==
    /\ pc = "Reported"
    /\ \/ /\ out' = Append(out, Line(IF len(df) = 0 THEN "none" ELSE "summary"))
          /\ pc' = IF len(df) # 0 /\ cfg.write_csv THEN "Persisting" ELSE "Skipped"
          /\ UNCHANGED <<cfg, loopvars, fetched, df_in, df, written, exc, failed>>
       \/ Raise("Reported")

\* df.to_csv(out_csv, ...); print("  wrote: ...")
Persist ==
    /\ pc = "Persisting"
    /\ \/ /\ written' = [name |-> <<symbol, K>>, table |-> df]
          /\ out' = Append(out, Line("wrote"))
          /\ pc' = "Persisted"
          /\ UNCHANGED <<cfg, loopvars, fetched, df_in, df, exc, failed>>
       \/ Raise("Persisting")

\* print() closing the block, whose tables are dead from here on; on to the
\* next block or the next symbol
FinishKind ==
    /\ pc \in {"Persisted", "Skipped"}
    /\ completed' = [completed EXCEPT ![i, kind] = @ + 1]
    /\ IF kind < Len(Kinds)
       THEN /\ kind' = kind + 1
            /\ pc' = "kind"
            /\ UNCHANGED i
       ELSE /\ i' = i + 1
            /\ kind' = 1
            /\ pc' = "loop"
    /\ fetched' = None
    /\ df_in' = None
    /\ df' = None
    /\ out' = <<>>
    /\ written' = NoFile
    /\ exc' = NoExc
    /\ UNCHANGED <<cfg, symbol, failed>>

\* KeyboardInterrupt: print("interrupted"); sys.exit(130)
Interrupt ==
    /\ pc \notin Terminal
    /\ pc' = "interrupted"
    /\ UNCHANGED <<cfg, loopvars, fetched, df_in, df, out, written, exc, failed>>

OptDates == {Absent} \cup {<<d>> : d \in Dates}

Configs(toggles, writes, bounds) ==
    [get_dividends : toggles, get_splits : toggles, get_capital_gains : toggles,
     get_prices : toggles, write_csv : writes, start : bounds, end : bounds]

Locals ==
    /\ fetched = None
    /\ df_in = None
    /\ df = None
    /\ out = <<>>
    /\ written = NoFile
    /\ exc = NoExc
    /\ completed = NoRun
    /\ failed = FALSE

\* a run of main() over symbols
Init ==
    /\ cfg \in Configs(BOOLEAN, BOOLEAN, {Absent, <<MainDate>>})
    /\ i = 1
    /\ symbol = ""
    /\ kind = 1
    /\ pc = "start"
    /\ Locals

Next ==
    \/ Start
    \/ NextSymbol
    \/ EnterKind
    \/ FetchEvents(SeriesUpTo(K, MainLen))
    \/ Normalize
    \/ Filter
    \/ Prune
    \/ FetchPrices(MainPrices(symbol))
    \/ Branch
    \/ Standardize
    \/ Reorder
    \/ Report
    \/ Persist
    \/ FinishKind
    \/ Interrupt

Spec == Init /\ [][Next]_vars

\* the program runs on until it ends: it is single-threaded and every call
\* returns or raises
FairSpec == Spec /\ WF_vars(Next)

\* one event block of the loop body, for any provider series and any window
InitBlock ==
    /\ cfg \in Configs({TRUE}, {TRUE}, OptDates)
    /\ i = 1
    /\ symbol = "SPY"
    /\ kind \in 1..Len(Kinds)
    /\ pc = "Fetching"
    /\ Locals

NextBlock ==
    \/ FetchEvents(SeriesUpTo(K, MaxLen))
    \/ Normalize
    \/ Filter
    \/ Prune
    \/ FetchPrices(MainPrices(symbol))
    \/ Branch
    \/ Standardize
    \/ Reorder
    \/ Report
    \/ Persist

SpecBlock == InitBlock /\ [][NextBlock]_vars

\* the price block of the loop body, for any provider table
InitPrices ==
    /\ cfg \in Configs({TRUE}, BOOLEAN, {Absent})
    /\ i = 1
    /\ symbol = "SPY"
    /\ kind = Len(Kinds)
    /\ pc = "Fetching"
    /\ Locals

NextPrices ==
    \/ FetchPrices({None} \cup PriceTables)
    \/ Branch
    \/ Standardize
    \/ Reorder
    \/ Report
    \/ Persist

SpecPrices == InitPrices /\ [][NextPrices]_vars

\* _standardize_price_columns called on any table
CallStandardize ==
    /\ pc = "call"
    /\ df' = _standardize_price_columns(fetched, symbol)
    /\ df_in' = fetched
    /\ pc' = "return"
    /\ UNCHANGED <<cfg, loopvars, fetched, out, written, exc, failed>>

InitStandardize ==
    /\ cfg \in Configs({TRUE}, BOOLEAN, {Absent})
    /\ i = 1
    /\ symbol = "SPY"
    /\ kind = Len(Kinds)
    /\ pc = "call"
    /\ fetched \in {None} \cup PriceTables
    /\ df_in = None
    /\ df = None
    /\ out = <<>>
    /\ written = NoFile
    /\ exc = NoExc
    /\ completed = NoRun
    /\ failed = FALSE

SpecStandardize == InitStandardize /\ [][CallStandardize]_vars

\* ------------------------------------------------------------------ claims
Count(rows, e) == Cardinality({a \in 1..Len(rows) : rows[a] = e})

InWindow(d, start, end) ==
    /\ (start # Absent => d >= start[1])
    /\ (end # Absent => d <= end[1])

StrictlyAscending(rows) ==
    \A a \in 1..Len(rows) : \A b \in 1..Len(rows) :
        a < b => rows[a].date < rows[b].date

DistinctDates(rows) ==
    \A a \in 1..Len(rows) : \A b \in 1..Len(rows) :
        a # b => rows[a].date # rows[b].date

AfterReport == {"Reported", "Persisting", "Persisted", "Skipped"}

\* C3: the table an event block reports and writes holds exactly the fetched
\* entries dated inside the inclusive window whose value is not zero, each as
\* often as the series holds it; the written table is the reported one; a
\* price table keeps every row the provider returned
C3_EventPipeline ==
    (pc \in AfterReport /\ exc = NoExc) =>
        /\ K \in EventKinds =>
              /\ \A e \in Entries :
                    Count(df.rows, e) =
                        IF fetched # None /\ e.value # 0
                              /\ InWindow(e.date, cfg.start, cfg.end)
                        THEN Count(fetched.data, e)
                        ELSE 0
              /\ \A a \in 1..Len(df.rows) : df.rows[a] \in Entries
        /\ (K = "prices" /\ fetched # None) => df.nrows = fetched.nrows
        /\ pc = "Persisted" => written.table = df

\* the scenario of the specification: a zero and a non-zero entry inside the
\* window, one entry outside, one row written
C3_Witness ==
    /\ pc = "Persisted"
    /\ K = "dividends"
    /\ exc = NoExc
    /\ cfg.start # Absent
    /\ cfg.end # Absent
    /\ Len(fetched.data) = 3
    /\ \E a \in 1..3 : /\ fetched.data[a].value = 0
                       /\ InWindow(fetched.data[a].date, cfg.start, cfg.end)
    /\ \E a \in 1..3 : ~InWindow(fetched.data[a].date, cfg.start, cfg.end)
    /\ Len(written.table.rows) = 1

C5_StrictlyAscending ==
    (pc = "Filtering" /\ exc = NoExc) => StrictlyAscending(df.rows)

\* C5, amended: the table _series_to_df returns has the one column named as
\* asked and a naive index named "date", holds the entries of the series, each
\* as often as the series does, in ascending (non-decreasing) date order, so
\* strictly ascending when the series repeats no date; for an absent or empty
\* series it is the table of that column without rows
C5_Normalizer ==
    (pc = "Filtering" /\ exc = NoExc) =>
        /\ df.columns = <<colname_of(K)>>
        /\ df.index_name = "date"
        /\ df.tz = "naive"
        /\ is_monotonic_increasing(df.rows)
        /\ \A e \in Entries :
              Count(df.rows, e) = IF fetched = None THEN 0 ELSE Count(fetched.data, e)
        /\ Len(df.rows) = IF fetched = None THEN 0 ELSE Len(fetched.data)
        /\ (fetched # None /\ DistinctDates(fetched.data)) => StrictlyAscending(df.rows)
        /\ (fetched = None \/ Len(fetched.data) = 0) => df = empty_event_frame(colname_of(K))

\* a series of three entries, out of order and with a repeated date
C5_Witness ==
    /\ pc = "Filtering"
    /\ exc = NoExc
    /\ fetched # None
    /\ Len(fetched.data) = 3
    /\ ~is_monotonic_increasing(fetched.data)
    /\ ~DistinctDates(fetched.data)
    /\ Len(df.rows) = 3

TwoLevel(t) == t # None /\ t.multi /\ t.nlevels = 2

FastPath(t) == t = None \/ t.nrows = 0 \/ ~t.multi

LevelSet(t, n) == {t.columns[a].label[n] : a \in 1..Len(t.columns)}

\* the columns of t that carry the symbol at level n, under their other label
Picked(t, sym, n) ==
    LET hit == SelectSeq(t.columns, LAMBDA c : c.label[n] = <<sym>>)
    IN  [a \in 1..Len(hit) |-> [label |-> hit[a].label[3 - n], src |-> hit[a].src]]

\* every column of t under its level-n label
Under(t, n) ==
    [a \in 1..Len(t.columns) |->
        [label |-> t.columns[a].label[n], src |-> t.columns[a].src]]

\* every column of t under outer label, separator, inner label
UnderPair(t) ==
    [a \in 1..Len(t.columns) |->
        [label |-> t.columns[a].label[1] \o <<Sep>> \o t.columns[a].label[2],
         src |-> t.columns[a].src]]

\* the outer selection is one column whose inner label is the empty string
BlankOnly(t, sym) ==
    /\ Len(Picked(t, sym, 1)) = 1
    /\ Picked(t, sym, 1)[1].label = <<>>

\* the rule the resolution policy applies once rule 1 is decided
RuleFrom(t, sym, first) ==
    IF first THEN 1
    ELSE IF <<sym>> \in LevelSet(t, 2) THEN 2
    ELSE IF Cardinality(LevelSet(t, 1)) = 1 /\ Cardinality(LevelSet(t, 2)) > 1 THEN 3
    ELSE IF Cardinality(LevelSet(t, 2)) = 1 /\ Cardinality(LevelSet(t, 1)) > 1 THEN 4
    ELSE 5

ColumnsBy(t, sym, rule) ==
    CASE rule = 1 -> Picked(t, sym, 1)
      [] rule = 2 -> Picked(t, sym, 2)
      [] rule = 3 -> Under(t, 2)
      [] rule = 4 -> Under(t, 1)
      [] rule = 5 -> UnderPair(t)

Resolved(t, sym, first) ==
    /\ FastPath(t) => df = t
    /\ (TwoLevel(t) /\ ~FastPath(t)) =>
          /\ ~df.multi
          /\ df.columns = ColumnsBy(t, sym, RuleFrom(t, sym, first))
          /\ df = [t EXCEPT !.multi = FALSE, !.nlevels = 1, !.columns = df.columns]

\* C6, as the specification states it: rule 1 applies whenever the outer
\* labels contain the symbol
C6_OuterAlwaysWins ==
    pc = "return" =>
        Resolved(df_in, symbol, <<symbol>> \in LevelSet(df_in, 1))

\* C6, amended: an absent, empty or flat table is returned as it is; for a
\* two-level table with rows the first rule that applies decides the columns:
\* (1) the outer labels contain the symbol and the outer selection is not one
\* column whose inner label is the empty string: the inner labels of the
\* symbol's columns; (2) the inner labels contain the symbol: the outer labels
\* of the symbol's columns; (3) one outer label, several inner: the inner
\* labels; (4) one inner label, several outer: the outer labels; (5) the
\* joined pairs.  So rule 1 beats rule 2, and outer labels that are all the
\* symbol leave the inner labels unless the only inner label is empty
C6_Policy ==
    pc = "return" =>
        /\ Resolved(df_in, symbol,
                    <<symbol>> \in LevelSet(df_in, 1) /\ ~BlankOnly(df_in, symbol))
        /\ (TwoLevel(df_in) /\ ~FastPath(df_in) /\ LevelSet(df_in, 1) = {<<symbol>>}
               /\ ~BlankOnly(df_in, symbol))
              => df.columns = Under(df_in, 2)

\* the symbol is on both levels and the outer selection is what comes back
C6_Witness ==
    /\ pc = "return"
    /\ TwoLevel(df_in)
    /\ df_in.nrows > 0
    /\ <<symbol>> \in LevelSet(df_in, 1)
    /\ <<symbol>> \in LevelSet(df_in, 2)
    /\ Picked(df_in, symbol, 1) # Picked(df_in, symbol, 2)
    /\ df.columns = Picked(df_in, symbol, 1)

\* neither level names the symbol and both levels hold several labels
Unresolvable(t, sym) ==
    /\ TwoLevel(t)
    /\ <<sym>> \notin LevelSet(t, 1) \cup LevelSet(t, 2)
    /\ Cardinality(LevelSet(t, 1)) > 1
    /\ Cardinality(LevelSet(t, 2)) > 1

HasSep(label) == \E a \in 1..Len(label) : label[a] = Sep

DistinctLabels(cols) ==
    \A a \in 1..Len(cols) : \A b \in 1..Len(cols) :
        a # b => cols[a].label # cols[b].label

\* C7, as the specification states it: for every two-level table with rows
\* that no rule resolves the names returned are single-level and pairwise
\* different
C7_AlwaysUnique ==
    (pc = "return" /\ Unresolvable(df_in, symbol) /\ df_in.nrows > 0) =>
        /\ ~df.multi
        /\ DistinctLabels(df.columns)

\* C7, amended: for every two-level table with rows that no rule resolves the
\* names returned are single-level, each the outer label, the separator and
\* the inner label of its column; they are pairwise different when no label
\* holds the separator
C7_JoinedNames ==
    (pc = "return" /\ Unresolvable(df_in, symbol) /\ df_in.nrows > 0) =>
        /\ ~df.multi
        /\ df.columns = UnderPair(df_in)
        /\ (\A l \in LevelSet(df_in, 1) \cup LevelSet(df_in, 2) : ~HasSep(l))
              => DistinctLabels(df.columns)

\* two columns whose labels hold no separator, joined to two names
C7_Witness ==
    /\ pc = "return"
    /\ Unresolvable(df_in, symbol)
    /\ df_in.nrows > 0
    /\ \A l \in LevelSet(df_in, 1) \cup LevelSet(df_in, 2) : ~HasSep(l)
    /\ Len(df.columns) = 2
    /\ df.columns[1].label # df.columns[2].label

Recognized(c) == c.label \in Range(preferred)

Rank(c) == CHOOSE a \in 1..Len(preferred) : preferred[a] = c.label

Place(cols, c) == CHOOSE a \in 1..Len(cols) : cols[a] = c

\* the columns of cols are those of from, each once, the recognized ones first
\* in the order of the preferred schema, the others after them as from has them
Ordered(cols, from) ==
    /\ Len(cols) = Len(from)
    /\ \A c \in Range(from) : Cardinality({a \in 1..Len(cols) : cols[a] = c}) = 1
    /\ \A a \in 1..Len(cols) : \A b \in 1..Len(cols) :
          a < b =>
             /\ Recognized(cols[b]) => Recognized(cols[a])
             /\ (Recognized(cols[a]) /\ Recognized(cols[b]))
                   => Rank(cols[a]) < Rank(cols[b])
             /\ (~Recognized(cols[a]) /\ ~Recognized(cols[b]))
                   => Place(from, cols[a]) < Place(from, cols[b])

\* C8, as the specification states it: every price table with rows that is
\* reported or written has single-level columns, each column of the
\* standardized table once, in the order of the preferred schema
C8_AlwaysOrdered ==
    (pc \in AfterReport /\ K = "prices" /\ len(df) > 0) =>
        /\ ~df.multi
        /\ Ordered(df.columns, df_in.columns)

\* C8, amended: every price table with rows that is reported or written has
\* single-level columns; when the standardized names are pairwise different
\* it holds each column of the standardized table once, the recognized ones
\* first in the order of the preferred schema, the others after them in their
\* original order
C8_Schema ==
    (pc \in AfterReport /\ K = "prices" /\ len(df) > 0) =>
        /\ ~df.multi
        /\ DistinctLabels(df_in.columns) => Ordered(df.columns, df_in.columns)

\* a two-level table written with its two recognized columns swapped into
\* schema order
C8_Witness ==
    /\ pc = "Persisted"
    /\ K = "prices"
    /\ fetched.multi
    /\ Len(df.columns) = 2
    /\ df_in.columns[1].label = L("Close")
    /\ df_in.columns[2].label = L("Open")
    /\ df.columns[1].label = L("Open")
    /\ written.table = df

Whats(lines) == [a \in 1..Len(lines) |-> lines[a].what]

Times(lines, what) == Cardinality({a \in 1..Len(lines) : lines[a].what = what})

\* the block at symbol position a, kind b is one main() runs
Runs(a, b) == upper_strip(symbols[a]) # "" /\ enabled(Kinds[b])

AllBlocksRunOnce ==
    \A a \in 1..Len(symbols) : \A b \in 1..Len(Kinds) :
        completed[a, b] = IF Runs(a, b) THEN 1 ELSE 0

\* C1: a provider fetch that raises never ends the run: the block prints its
\* error, reports "none" on a table without rows and writes no file; every
\* block that comes to its end has reported, and written its table when it
\* has rows and writing is on; and at "done" every enabled kind of every
\* symbol has run to its end, whether or not a fetch has raised
C1_FetchIsolation ==
    /\ exc.stage = "Fetching" =>
          /\ exc.caught
          /\ pc \in {"Empty", "Reported", "Skipped", "interrupted"}
          /\ len(df) = 0
          /\ written = NoFile
          /\ Whats(out) \in {<<"error">>, <<"error", "none">>}
          /\ pc = "Skipped" => Whats(out) = <<"error", "none">>
    /\ pc \in {"Persisted", "Skipped"} =>
          /\ Times(out, "none") + Times(out, "summary") = 1
          /\ (len(df) > 0 /\ cfg.write_csv) => written.table = df
    /\ pc = "done" => AllBlocksRunOnce

\* a run that ends with "done" after a fetch has raised, all kinds enabled
C1_Witness ==
    /\ pc = "done"
    /\ failed
    /\ cfg.get_dividends /\ cfg.get_splits /\ cfg.get_capital_gains /\ cfg.get_prices
    /\ cfg.write_csv
    /\ AllBlocksRunOnce

\* C2: a file is written only for a table with rows and only when writing is
\* on; a block that has come to its end has written its table if and only if
\* the table has rows and writing is on, has printed "none" and nothing else
\* for a table without rows, and a summary for a table with rows
C2_Persistence ==
    /\ written # NoFile =>
          /\ cfg.write_csv
          /\ len(written.table) > 0
          /\ written = [name |-> <<symbol, K>>, table |-> df]
    /\ pc \in {"Persisted", "Skipped"} =>
          /\ (written # NoFile) <=> (len(df) > 0 /\ cfg.write_csv)
          /\ (pc = "Persisted") <=> (written # NoFile)
          /\ len(df) = 0 =>
                /\ Times(out, "none") = 1
                /\ Times(out, "summary") = 0
                /\ Times(out, "wrote") = 0
          /\ len(df) > 0 =>
                /\ Times(out, "none") = 0
                /\ Times(out, "summary") = 1
                /\ Times(out, "wrote") = IF cfg.write_csv THEN 1 ELSE 0

\* the price fetch returned a table without rows: "none", no file, writing on
C2_Witness ==
    /\ pc = "Skipped"
    /\ K = "prices"
    /\ cfg.write_csv
    /\ exc = NoExc
    /\ fetched # None
    /\ len(df) = 0
    /\ written = NoFile
    /\ Whats(out) = <<"none">>

\* C9, as the specification states it: an exception is caught if and only if
\* it is raised in the Fetching stage
C9_FetchingOnly ==
    exc # NoExc => (exc.caught <=> exc.stage = "Fetching")

\* C9, amended: an exception is caught if and only if it is raised inside the
\* kind's try statement: in the Fetching, Normalizing, Filtering or Pruned
\* stage of an event kind, in the Fetching stage of prices.  A caught exception
\* prints the one error line of the block, naming the kind, and leaves a table
\* without rows (the kind's value column for an event kind, no column for
\* prices) on which the block goes on from Empty; any other exception ends the
\* run
C9_Recovery ==
    /\ exc # NoExc =>
          /\ exc.caught <=>
                \/ K \in EventKinds
                      /\ exc.stage \in {"Fetching", "Normalizing", "Filtering", "Pruned"}
                \/ K = "prices" /\ exc.stage = "Fetching"
          /\ exc.caught =>
                /\ pc \in {"Empty", "Reported", "Skipped", "interrupted"}
                /\ Times(out, "error") = 1
                /\ out[1] = [what |-> "error", kind |-> K, symbol |-> symbol]
                /\ len(df) = 0
                /\ df.columns = IF K = "prices" THEN <<>> ELSE <<colname_of(K)>>
                /\ pc = "Empty" => Whats(out) = <<"error">>
          /\ ~exc.caught => pc = "crashed"
    /\ pc = "crashed" => (exc # NoExc /\ ~exc.caught)
    /\ exc = NoExc => Times(out, "error") = 0

\* an exception raised while filtering an event table, caught, the block ended
C9_Witness ==
    /\ exc = [stage |-> "Filtering", caught |-> TRUE]
    /\ K \in EventKinds
    /\ pc = "Skipped"
    /\ Whats(out) = <<"error", "none">>

\* the stage of the specification's state machine a position belongs to
StageOf(p) ==
    CASE p = "Standardized" -> "Normalizing"
      [] p = "Persisting" -> "Reported"
      [] OTHER -> p

Stages ==
    {"Fetching", "Normalizing", "Filtering", "Pruned", "Empty", "NonEmpty",
     "Reported", "Persisted", "Skipped"}

\* the stage order the specification gives every kind
ClaimedAfter(p) ==
    CASE p = "Fetching" -> {"Normalizing"}
      [] p = "Normalizing" -> {"Filtering"}
      [] p = "Filtering" -> {"Pruned"}
      [] p = "Pruned" -> {"Empty", "NonEmpty"}
      [] p \in {"Empty", "NonEmpty"} -> {"Reported"}
      [] p = "Reported" -> {"Persisted", "Skipped"}
      [] OTHER -> {}

\* the stage order of the price block
PricesAfter(p) ==
    CASE p = "Fetching" -> {"Empty", "NonEmpty"}
      [] p = "NonEmpty" -> {"Normalizing"}
      [] p = "Empty" -> {"Reported"}
      [] p = "Normalizing" -> {"Reported"}
      [] p = "Reported" -> {"Persisted", "Skipped"}
      [] OTHER -> {}

\* a step from one stage of a block to another stage of it, no exception raised
StageStep ==
    /\ pc \in Stages \cup {"Standardized", "Persisting"}
    /\ pc' \in Stages \cup {"Standardized", "Persisting"}
    /\ StageOf(pc') # StageOf(pc)
    /\ exc' = exc

\* C10, as the specification states it: each of the four kinds, prices
\* included, goes from Fetching through Normalizing, Filtering and Pruned to
\* Empty or NonEmpty, Reported, then Persisted or Skipped
C10_SameStagesForAll ==
    [][StageStep => StageOf(pc') \in ClaimedAfter(StageOf(pc))]_vars

BlockBefore(a, b, c, d) == a < c \/ (a = c /\ b < d)

\* a block is entered only when every block before it that main() runs has
\* come to its end once and no block from it on has
InOrder ==
    (pc' = "Fetching" /\ pc # "Fetching") =>
        \A a \in 1..Len(symbols) : \A b \in 1..Len(Kinds) :
            completed'[a, b] = IF BlockBefore(a, b, i', kind') /\ Runs(a, b) THEN 1 ELSE 0

StageOrder ==
    /\ StageStep =>
          StageOf(pc') \in IF K = "prices" THEN PricesAfter(StageOf(pc))
                           ELSE ClaimedAfter(StageOf(pc))
    /\ (exc' # exc /\ exc' # NoExc) => pc' = IF exc'.caught THEN "Empty" ELSE "crashed"

\* C10, amended: blocks run one at a time, symbols in list order and kinds in
\* the order dividends, splits, capital gains, prices, none entered before the
\* one before it has reached Persisted or Skipped; an event kind goes from
\* Fetching through Normalizing, Filtering and Pruned to Empty or NonEmpty,
\* Reported, then Persisted or Skipped; prices go from Fetching to Empty or
\* NonEmpty, from NonEmpty through Normalizing, then Reported, then Persisted
\* or Skipped, with no Filtering or Pruned stage; a caught exception leads to
\* Empty.  The run always ends; it ends in a crash only on an uncaught
\* exception, with "nothing to do" only when no kind is enabled, and at "done"
\* every enabled kind of every non-blank symbol has reached Persisted or
\* Skipped exactly once
C10_Sequencing ==
    /\ [][InOrder /\ StageOrder]_vars
    /\ [](pc = "done" => AllBlocksRunOnce)
    /\ [](pc = "crashed" => (exc # NoExc /\ ~exc.caught))
    /\ [](pc = "nothing_to_do" => ~any_toggle)
    /\ [](pc = "done" => any_toggle)
    /\ <>(pc \in Terminal)

\* "done" with every kind enabled and every block of a non-blank symbol run
C10_Witness ==
    /\ pc = "done"
    /\ cfg.get_dividends /\ cfg.get_splits /\ cfg.get_capital_gains /\ cfg.get_prices
    /\ ~failed
    /\ AllBlocksRunOnce
    /\ completed[1, 4] = 1
    /\ completed[2, 1] = 0

====
